---- MODULE Spec2Model ----
(***************************************************************************)
(* Model of the todo agent (mosabami/simple-todo-agent): the invocation    *)
(* pipeline run_todo_agent (session singleton, todo cache, per-call agent, *)
(* provider stream, metadata trailer, error fragment) and its consumers    *)
(* (run_todo_agent_sync, the CLI loop, the Chainlit handler, POST /chat    *)
(* and POST /chat/stream).                                                 *)
(*                                                                         *)
(* Strings are modelled as sequences of tokens (each token a string):      *)
(* concatenation is \o, str.startswith is a prefix test on tokens.  The    *)
(* tokens "\n" and "__METADATA__:" are the two pieces of the trailer       *)
(* prefix, so a prefix test sees exactly what the Python test sees.        *)
(***************************************************************************)
EXTENDS Integers, Sequences, FiniteSets, TLC

\* ---------------------------------------------------------------- bounds
MaxCalls == 2      \* invocations of run_todo_agent per process lifetime
MaxDeltas == 2     \* deltas read from one provider stream
NumProcs == 2      \* invocation slots (coroutines)

Procs == 1..NumProcs

\* ------------------------------------------------------- optional values
None == [some |-> FALSE]
Some(v) == [some |-> TRUE, val |-> v]

\* ------------------------------------------------------------ todo data
Todo1 == [id |-> 1, userId |-> 1, title |-> "delectus", completed |-> FALSE]
Todo2 == [id |-> 2, userId |-> 1, title |-> "quis", completed |-> TRUE]

Todo3 == [id |-> 3, userId |-> 2, title |-> "fugiat", completed |-> FALSE]

\* the arguments format_todos_for_context is examined on
MaxTodos == 3
MaxLimit == 3
FormatInputs ==
    [ todos : UNION { [1..n -> {Todo1, Todo2, Todo3}] : n \in 0..MaxTodos },
      limit : 0..MaxLimit ]

\* the lists the upstream API may answer with
TodoLists == { <<>>, <<Todo1, Todo2>> }

\* outcomes of client.get(TODO_API_URL): a transport failure, or a response
\* with a status and a body; a body is a JSON list or does not parse
Malformed == [json |-> FALSE]
JsonBody(l) == [json |-> TRUE, val |-> l]
Responses ==
    { [transport |-> FALSE, status |-> 200, body |-> JsonBody(l)] : l \in TodoLists }
    \cup { [transport |-> FALSE, status |-> 200, body |-> Malformed] }
    \cup { [transport |-> FALSE, status |-> s, body |-> Malformed] : s \in {404, 500} }
    \cup { [transport |-> TRUE, status |-> 0, body |-> Malformed] }

\* ------------------------------------------------------ string helpers
Min(a, b) == IF a < b THEN a ELSE b

StartsWith(s, prefix) ==
    /\ Len(s) >= Len(prefix)
    /\ SubSeq(s, 1, Len(prefix)) = prefix

RECURSIVE Join(_)
Join(parts) ==
    IF parts = <<>> THEN <<>> ELSE Head(parts) \o Join(Tail(parts))

\* json.dumps of a string: the newline is escaped
JsonDumpsStr(s) ==
    <<"\"">> \o [i \in 1..Len(s) |-> IF s[i] = "\n" THEN "\\n" ELSE s[i]] \o <<"\"">>

DefaultLimit == 50

\* variant of format_todos_for_context: the empty-list test is missing
format_todos_for_context_no_empty_case(todos, limit) ==
    LET todos_subset == SubSeq(todos, 1, Min(limit, Len(todos)))
    IN  << <<"Available Todos (", ToString(Len(todos_subset)), " of ",
             ToString(Len(todos)), " shown):">>,
           <<"--------------------------------------------------">> >>
        \o [i \in 1..Len(todos_subset) |->
              << IF todos_subset[i].completed THEN "(check)" ELSE "(circle)",
                 " [ID:", ToString(todos_subset[i].id), "] (User ",
                 ToString(todos_subset[i].userId), ") ",
                 todos_subset[i].title >>]

\* variant of format_todos_for_context: the lines are those of every todo
format_todos_for_context_all_lines(todos, limit) ==
    IF todos = <<>>
    THEN << <<"No todos available.">> >>
    ELSE LET todos_subset == SubSeq(todos, 1, Min(limit, Len(todos)))
         IN  << <<"Available Todos (", ToString(Len(todos_subset)), " of ",
                  ToString(Len(todos)), " shown):">>,
                <<"--------------------------------------------------">> >>
             \o [i \in 1..Len(todos) |->
                   << IF todos[i].completed THEN "(check)" ELSE "(circle)",
                      " [ID:", ToString(todos[i].id), "] (User ",
                      ToString(todos[i].userId), ") ",
                      todos[i].title >>]

format_todos_for_context(todos, limit) ==
    IF todos = <<>>
    THEN << <<"No todos available.">> >>
    ELSE LET todos_subset == SubSeq(todos, 1, Min(limit, Len(todos)))
         IN  << <<"Available Todos (", ToString(Len(todos_subset)), " of ",
                  ToString(Len(todos)), " shown):">>,
                <<"--------------------------------------------------">> >>
             \o [i \in 1..Len(todos_subset) |->
                   << IF todos_subset[i].completed THEN "(check)" ELSE "(circle)",
                      " [ID:", ToString(todos_subset[i].id), "] (User ",
                      ToString(todos_subset[i].userId), ") ",
                      todos_subset[i].title >>]

\* the instructions given to the per-call agent: SYSTEM_PROMPT, the data
\* banner, then the lines of the todos context
Instructions(todos_context) ==
    << <<"SYSTEM_PROMPT">>, <<"--- TODO DATA ---">> >> \o todos_context

\* ------------------------------------------------------------ fragments
\* the metadata trailer: "\n__METADATA__:" + json.dumps(metadata)
MetadataText(n, uid) ==
    <<"\n", "__METADATA__:", "{", "todos_loaded", ToString(n),
      "user_id", IF uid = "" THEN "anonymous" ELSE uid, "}">>

ErrorText(msg) == <<"Error: ", msg>>

\* what the provider stream can deliver as chunk.text
Deltas == { <<>>, <<"Hi">>, <<" there">> }

UserIds == { "", "u1" }

Consumers == { "sync", "cli", "chainlit", "chat_stream", "sse" }

Variants == { "provider", "openai" }

\* calls of get_todo_by_id_tool per process lifetime
MaxToolCalls == 1

\* the todo_id arguments the agent may pass, inside and outside 1-200
TodoIds == { 1, 2, 250 }

\* outcomes of client.get(url) in the tool: a transport failure, or a
\* response with a status and a body; a body is a JSON todo or does not parse
ToolResponses ==
    { [transport |-> FALSE, status |-> 200, body |-> JsonBody(t)] : t \in {Todo1, Todo2} }
    \cup { [transport |-> FALSE, status |-> 200, body |-> Malformed] }
    \cup { [transport |-> FALSE, status |-> s, body |-> Malformed] : s \in {404, 500} }
    \cup { [transport |-> TRUE, status |-> 0, body |-> Malformed] }

\* the turns a caller can put in chat_history; main.py takes any role string
MaxHistory == 2
Roles == { "user", "assistant", "system" }
Contents == { "a", "b" }
Turns == [ role : Roles, content : Contents ]
Histories == UNION { [1..n -> Turns] : n \in 0..MaxHistory }
Messages == { "hi" }

\* URLs are sequences of characters
TodosSuffix == <<"/", "t", "o", "d", "o", "s">>
HostCom == <<"/", "/", "a", ".", "c", "o", "m">>
HostLocal == <<"/", "/", "h", "o", "s", "t">>

\* a host ending like the default one, https://jsonplaceholder.typicode.com/todos
DefaultUrl == HostCom \o TodosSuffix

\* values the TODO_API_URL setting can take
Urls == { DefaultUrl,
          HostCom \o TodosSuffix \o <<"/">>,
          HostCom \o <<"/", "v", "1">> \o TodosSuffix,
          HostLocal \o TodosSuffix }

\* what configure_tracer depends on: the connection string, the three
\* guarded imports, and whether each configuration step raises
TracerEnvs ==
    [ connection_string : BOOLEAN,
      AGENT_FRAMEWORK_AVAILABLE : BOOLEAN,
      AZURE_MONITOR_EXPORTERS_AVAILABLE : BOOLEAN,
      AZURE_MONITOR_AVAILABLE : BOOLEAN,
      option1_raises : BOOLEAN,
      option2_raises : BOOLEAN ]

NoTelemetry ==
    [ connection_string |-> FALSE, AGENT_FRAMEWORK_AVAILABLE |-> FALSE,
      AZURE_MONITOR_EXPORTERS_AVAILABLE |-> FALSE,
      AZURE_MONITOR_AVAILABLE |-> FALSE,
      option1_raises |-> FALSE, option2_raises |-> FALSE ]

FullTelemetry ==
    [ connection_string |-> TRUE, AGENT_FRAMEWORK_AVAILABLE |-> TRUE,
      AZURE_MONITOR_EXPORTERS_AVAILABLE |-> TRUE,
      AZURE_MONITOR_AVAILABLE |-> TRUE,
      option1_raises |-> FALSE, option2_raises |-> FALSE ]

\* --------------------------------------------------------------- state
VARIABLES
    variant,                 \* which agent.py the process runs
    AZURE_OPENAI_ENDPOINT,   \* configuration values: TRUE when set (non-empty)
    APIM_SUBSCRIPTION_KEY,
    AZURE_OPENAI_API_KEY,
    OPENAI_API_KEY,
    TODO_API_URL,            \* the list endpoint, a sequence of characters
    tracer_env,              \* what configure_tracer finds in the process
    _todos_cache,            \* None or Some(list)
    credentials,             \* every credential object constructed: [entered]
    providers,               \* every provider object constructed: [credential, entered]
    clients,                 \* every OpenAIChatClient constructed: [strategy]
    _credential,             \* index into credentials, 0 is None
    _provider,               \* index into providers, 0 is None
    _provider_initialized,
    _client,                 \* index into clients, 0 is None
    _client_initialized,
    _tracing_configured,
    _TRACING_CONFIGURED,     \* the flag of the tracing module
    tracer_returned,         \* results of the configure_tracer calls so far
    pc,                      \* position of each invocation
    consumer,                \* who iterates the generator
    user_id,                 \* the user_id argument ("" is None)
    session,                 \* the local provider / client of run_todo_agent
    awaited,                 \* the object whose __aenter__ is being awaited
    todos,                   \* the local todos of run_todo_agent
    agent,                   \* instructions of the per-call agent
    reads,                   \* deltas read from the provider stream so far
    emitted,                 \* fragments yielded by run_todo_agent: [kind, text]
    cstate,                  \* consumer state: [out, parts, response]
    raised,                  \* message of the exception raised in the invocation
    fetched,                 \* how this invocation's fetch_todos ended
    calls,                   \* invocations started
    resolutions,             \* runs of the credential resolution
    fetch_log,               \* one entry per completed fetch_todos call
    chat_history,            \* the chat_history argument: turns [role, content]
    user_message,            \* the user_message argument
    full_prompt,             \* the prompt handed to agent.run
    delivered,               \* chunk.text of every chunk read from the stream
    tool_log,                \* one entry per get_todo_by_id_tool call
    conversation,            \* the chat_history list a front end keeps
    format_input,            \* arguments of a format_todos_for_context call
    format_output            \* None or Some(its result)

config == <<variant, AZURE_OPENAI_ENDPOINT, APIM_SUBSCRIPTION_KEY,
            AZURE_OPENAI_API_KEY, OPENAI_API_KEY, TODO_API_URL, tracer_env>>
heap == <<credentials, providers, clients>>
provider_globals == <<_credential, _provider, _provider_initialized>>
client_globals == <<_client, _client_initialized, _tracing_configured,
                    _TRACING_CONFIGURED, tracer_returned>>
locals == <<consumer, user_id, session, awaited, todos, agent, reads>>
stream_state == <<emitted, cstate, raised>>
fetch_state == <<_todos_cache, fetched, fetch_log>>
prompt_state == <<chat_history, user_message, full_prompt>>
format_state == <<format_input, format_output>>

vars == <<config, heap, provider_globals, client_globals, pc, locals,
          stream_state, fetch_state, calls, resolutions, prompt_state,
          delivered, tool_log, conversation, format_state>>

EmptyConsumerState == [out |-> <<>>, parts |-> <<>>, response |-> <<>>]

\* the arguments of the call the pipeline makes on an empty list
NoFormatInput == [todos |-> <<>>, limit |-> DefaultLimit]

\* the state right after the module is loaded, whatever the configuration
InitState ==
    /\ _todos_cache = None
    /\ credentials = <<>> /\ providers = <<>> /\ clients = <<>>
    /\ _credential = 0 /\ _provider = 0 /\ _provider_initialized = FALSE
    /\ _client = 0 /\ _client_initialized = FALSE /\ _tracing_configured = FALSE
    /\ _TRACING_CONFIGURED = FALSE /\ tracer_returned = <<>>
    /\ pc = [p \in Procs |-> "idle"]
    /\ consumer = [p \in Procs |-> "sync"]
    /\ user_id = [p \in Procs |-> ""]
    /\ session = [p \in Procs |-> 0]
    /\ awaited = [p \in Procs |-> 0]
    /\ todos = [p \in Procs |-> <<>>]
    /\ agent = [p \in Procs |-> <<>>]
    /\ reads = [p \in Procs |-> 0]
    /\ emitted = [p \in Procs |-> <<>>]
    /\ cstate = [p \in Procs |-> EmptyConsumerState]
    /\ raised = [p \in Procs |-> ""]
    /\ fetched = [p \in Procs |-> "none"]
    /\ calls = 0
    /\ resolutions = 0
    /\ fetch_log = <<>>
    /\ chat_history = [p \in Procs |-> <<>>]
    /\ user_message = [p \in Procs |-> ""]
    /\ full_prompt = [p \in Procs |-> <<>>]
    /\ delivered = [p \in Procs |-> <<>>]
    /\ tool_log = <<>>
    /\ conversation = [p \in Procs |-> <<>>]
    /\ format_output = None

\* the project-provider variant reads none of the four values
ProviderConfig ==
    /\ variant = "provider"
    /\ AZURE_OPENAI_ENDPOINT = FALSE /\ APIM_SUBSCRIPTION_KEY = FALSE
    /\ AZURE_OPENAI_API_KEY = FALSE /\ OPENAI_API_KEY = FALSE
    /\ TODO_API_URL = DefaultUrl
    /\ tracer_env = NoTelemetry

\* the OpenAI-client variant with any of the 16 combinations of the values
OpenAIConfig ==
    /\ variant = "openai"
    /\ AZURE_OPENAI_ENDPOINT \in BOOLEAN
    /\ APIM_SUBSCRIPTION_KEY \in BOOLEAN
    /\ AZURE_OPENAI_API_KEY \in BOOLEAN
    /\ OPENAI_API_KEY \in BOOLEAN
    /\ TODO_API_URL = DefaultUrl
    /\ tracer_env \in { NoTelemetry, FullTelemetry }

\* the combinations that set nothing or exactly what one option needs
MinimalConfig ==
    /\ APIM_SUBSCRIPTION_KEY => (AZURE_OPENAI_ENDPOINT /\ ~AZURE_OPENAI_API_KEY)
    /\ AZURE_OPENAI_API_KEY => AZURE_OPENAI_ENDPOINT
    /\ OPENAI_API_KEY => ~AZURE_OPENAI_ENDPOINT

\* the pipeline of either variant, under the minimal configurations
Init ==
    /\ ProviderConfig \/ (OpenAIConfig /\ MinimalConfig)
    /\ InitState
    /\ format_input = NoFormatInput

\* the OpenAI-client variant under every configuration
ConfigInit ==
    /\ OpenAIConfig
    /\ InitState
    /\ format_input = NoFormatInput

\* ------------------------------------------------------------ consumers
MetadataPrefix == <<"__METADATA__:">>

\* run_todo_agent_sync: the loop body, then the return value
run_todo_agent_sync_chunk(cs, chunk) ==
    IF ~StartsWith(chunk, MetadataPrefix)
    THEN [cs EXCEPT !.parts = Append(@, chunk)]
    ELSE cs

run_todo_agent_sync_return(cs) == [cs EXCEPT !.response = Join(cs.parts)]

\* the CLI loop of agent.py: print the chunk and add it to response
cli_chunk(cs, chunk) ==
    IF ~StartsWith(chunk, MetadataPrefix)
    THEN [cs EXCEPT !.out = Append(@, chunk), !.response = @ \o chunk]
    ELSE cs

\* the Chainlit message handler
chainlit_chunk(cs, chunk) ==
    IF StartsWith(chunk, <<"\n", "__METADATA__:">>)
    THEN cs
    ELSE [cs EXCEPT !.response = @ \o chunk, !.out = Append(@, chunk)]

\* POST /chat with stream=true: generate()
chat_generate_chunk(cs, chunk) ==
    IF ~StartsWith(chunk, MetadataPrefix)
    THEN [cs EXCEPT !.out = Append(@, chunk)]
    ELSE cs

\* POST /chat/stream: generate()
SseText(chunk) ==
    <<"data: ", "{", "\"text\": ">> \o JsonDumpsStr(chunk) \o <<"}", "\n\n">>

SseDone == <<"data: ", "[DONE]", "\n\n">>

chat_stream_generate_chunk(cs, chunk) ==
    IF ~StartsWith(chunk, MetadataPrefix)
    THEN [cs EXCEPT !.out = Append(@, SseText(chunk))]
    ELSE cs

chat_stream_generate_end(cs) == [cs EXCEPT !.out = Append(@, SseDone)]

\* the consumer receives one chunk from the generator
ConsumerChunk(c, cs, chunk) ==
    CASE c = "sync" -> run_todo_agent_sync_chunk(cs, chunk)
      [] c = "cli" -> cli_chunk(cs, chunk)
      [] c = "chainlit" -> chainlit_chunk(cs, chunk)
      [] c = "chat_stream" -> chat_generate_chunk(cs, chunk)
      [] c = "sse" -> chat_stream_generate_chunk(cs, chunk)

\* the consumer finds the generator exhausted
ConsumerEnd(c, cs) ==
    CASE c = "sync" -> run_todo_agent_sync_return(cs)
      [] c = "sse" -> chat_stream_generate_end(cs)
      [] OTHER -> cs

\* the status of the HTTP answer: the streaming handlers return their
\* StreamingResponse before the generator runs; the non-streaming /chat
\* awaits run_todo_agent_sync inside try / except Exception, whose handler
\* raises HTTPException(500) when an exception leaves the generator
HttpStatus(c, position) ==
    IF c = "sync" /\ position = "crashed" THEN 500 ELSE 200

\* ------------------------------------------------------------ generator
\* a yield of run_todo_agent that is followed by more of the generator
Yield(p, frag) ==
    /\ emitted' = [emitted EXCEPT ![p] = Append(@, frag)]
    /\ cstate' = [cstate EXCEPT ![p] = ConsumerChunk(consumer[p], @, frag.text)]

\* the last yield of run_todo_agent: the generator is exhausted after it
YieldLast(p, frag) ==
    /\ emitted' = [emitted EXCEPT ![p] = Append(@, frag)]
    /\ cstate' = [cstate EXCEPT ![p] =
                    ConsumerEnd(consumer[p], ConsumerChunk(consumer[p], @, frag.text))]
    /\ pc' = [pc EXCEPT ![p] = "done"]

\* variant of except_handler: the trailer is yielded in a finally clause,
\* so it follows the error fragment
except_handler_finally(p, msg) ==
    LET err == [kind |-> "error", text |-> ErrorText(msg)]
        meta == [kind |-> "meta", text |-> MetadataText(Len(todos[p]), user_id[p])]
    IN  /\ raised' = [raised EXCEPT ![p] = msg]
        /\ emitted' = [emitted EXCEPT ![p] = Append(Append(@, err), meta)]
        /\ cstate' = [cstate EXCEPT ![p] =
              ConsumerEnd(consumer[p],
                ConsumerChunk(consumer[p],
                  ConsumerChunk(consumer[p], @, err.text), meta.text))]
        /\ pc' = [pc EXCEPT ![p] = "done"]

\* variant of except_handler: only ValueError is caught, any other
\* exception leaves the generator
except_handler_value_error(p, msg) ==
    /\ raised' = [raised EXCEPT ![p] = msg]
    /\ IF msg = "No credentials configured"
       THEN YieldLast(p, [kind |-> "error", text |-> ErrorText(msg)])
       ELSE /\ pc' = [pc EXCEPT ![p] = "crashed"]
            /\ UNCHANGED <<emitted, cstate>>

\* variant of except_handler: the error fragment is yielded and the
\* exception is raised again, so it leaves the generator
except_handler_reraise(p, msg) ==
    /\ raised' = [raised EXCEPT ![p] = msg]
    /\ Yield(p, [kind |-> "error", text |-> ErrorText(msg)])
    /\ pc' = [pc EXCEPT ![p] = "crashed"]

\* except Exception as e: yield f"Error: {str(e)}"
except_handler(p, msg) ==
    /\ raised' = [raised EXCEPT ![p] = msg]
    /\ YieldLast(p, [kind |-> "error", text |-> ErrorText(msg)])

\* a new invocation run_todo_agent(message, history, user_id) by a consumer
Invoke(p, history, message) ==
    /\ pc[p] \in {"idle", "done"}
    /\ calls < MaxCalls
    /\ calls' = calls + 1
    /\ chat_history' = [chat_history EXCEPT ![p] = history]
    /\ user_message' = [user_message EXCEPT ![p] = message]
    /\ full_prompt' = [full_prompt EXCEPT ![p] = <<>>]
    /\ delivered' = [delivered EXCEPT ![p] = <<>>]
    /\ \E c \in Consumers : consumer' = [consumer EXCEPT ![p] = c]
    /\ \E u \in UserIds : user_id' = [user_id EXCEPT ![p] = u]
    /\ session' = [session EXCEPT ![p] = 0]
    /\ awaited' = [awaited EXCEPT ![p] = 0]
    /\ todos' = [todos EXCEPT ![p] = <<>>]
    /\ agent' = [agent EXCEPT ![p] = <<>>]
    /\ reads' = [reads EXCEPT ![p] = 0]
    /\ emitted' = [emitted EXCEPT ![p] = <<>>]
    /\ cstate' = [cstate EXCEPT ![p] = EmptyConsumerState]
    /\ raised' = [raised EXCEPT ![p] = ""]
    /\ fetched' = [fetched EXCEPT ![p] = "none"]
    /\ pc' = [pc EXCEPT ![p] = "session"]
    /\ UNCHANGED <<config, tool_log, format_state, heap, provider_globals,
                   client_globals, _todos_cache, fetch_log, resolutions>>

\* an invocation with no history, by a caller that keeps no conversation
Start(p) ==
    /\ Invoke(p, <<>>, "hi")
    /\ UNCHANGED conversation

\* ------------------------------------------- session: OpenAI-client variant
\* variant of ResolveStrategy: the workload-identity branch is tested
\* before the API-key branch
ResolveStrategy_identity_first(endpoint, apim_key, azure_key, openai_key) ==
    IF endpoint /\ apim_key THEN 1
    ELSE IF endpoint THEN 3
    ELSE IF endpoint /\ azure_key THEN 2
    ELSE IF openai_key THEN 4
    ELSE 0

\* the if / elif chain of get_openai_client: the option built, 0 when the
\* chain ends in the raise
ResolveStrategy(endpoint, apim_key, azure_key, openai_key) ==
    IF endpoint /\ apim_key THEN 1
    ELSE IF endpoint /\ azure_key THEN 2
    ELSE IF endpoint THEN 3
    ELSE IF openai_key THEN 4
    ELSE 0

Strategy ==
    ResolveStrategy(AZURE_OPENAI_ENDPOINT, APIM_SUBSCRIPTION_KEY,
                    AZURE_OPENAI_API_KEY, OPENAI_API_KEY)

\* if _client_initialized and _client is not None: return _client
GetClientCached(p) ==
    /\ _client_initialized /\ _client # 0
    /\ session' = [session EXCEPT ![p] = _client]
    /\ pc' = [pc EXCEPT ![p] = "fetch"]
    /\ UNCHANGED <<heap, provider_globals, client_globals, stream_state,
                   resolutions>>

\* variant of configure_tracer: the connection string is not tested
configure_tracer_no_connection_check(already, env) ==
    IF already THEN TRUE
    ELSE IF /\ env.AGENT_FRAMEWORK_AVAILABLE
            /\ env.AZURE_MONITOR_EXPORTERS_AVAILABLE
            /\ ~env.option1_raises
         THEN TRUE
    ELSE IF env.AZURE_MONITOR_AVAILABLE THEN ~env.option2_raises
    ELSE FALSE

\* the result of configure_tracer: True when already configured, False
\* without a connection string, else the first option that is available
\* and does not raise; a raise in option 1 falls through to option 2
configure_tracer(already, env) ==
    IF already THEN TRUE
    ELSE IF ~env.connection_string THEN FALSE
    ELSE IF /\ env.AGENT_FRAMEWORK_AVAILABLE
            /\ env.AZURE_MONITOR_EXPORTERS_AVAILABLE
            /\ ~env.option1_raises
         THEN TRUE
    ELSE IF env.AZURE_MONITOR_AVAILABLE THEN ~env.option2_raises
    ELSE FALSE

\* if not _tracing_configured: _configure_tracing(); traced is the result
\* of configure_tracer
ConfigureTracing(traced) ==
    IF _tracing_configured
    THEN UNCHANGED <<_tracing_configured, _TRACING_CONFIGURED, tracer_returned>>
    ELSE /\ _tracing_configured' = traced
         /\ _TRACING_CONFIGURED' = (_TRACING_CONFIGURED \/ traced)
         /\ tracer_returned' = Append(tracer_returned, traced)

\* variant of GetClientBuild: _client_initialized is not set
GetClientBuild_no_flag(p) ==
    /\ ~(_client_initialized /\ _client # 0)
    /\ Strategy # 0
    /\ ConfigureTracing(configure_tracer(_TRACING_CONFIGURED, tracer_env))
    /\ resolutions' = resolutions + 1
    /\ IF Strategy = 3
       THEN /\ credentials' = Append(credentials, [entered |-> FALSE])
            /\ _credential' = Len(credentials) + 1
       ELSE UNCHANGED <<credentials, _credential>>
    /\ clients' = Append(clients, [strategy |-> Strategy])
    /\ _client' = Len(clients) + 1
    /\ UNCHANGED _client_initialized
    /\ session' = [session EXCEPT ![p] = Len(clients) + 1]
    /\ pc' = [pc EXCEPT ![p] = "fetch"]
    /\ UNCHANGED <<providers, _provider, _provider_initialized, stream_state>>

\* one of the four options is configured: build the client
GetClientBuild(p) ==
    /\ ~(_client_initialized /\ _client # 0)
    /\ Strategy # 0
    /\ ConfigureTracing(configure_tracer(_TRACING_CONFIGURED, tracer_env))
    /\ resolutions' = resolutions + 1
    /\ IF Strategy = 3
       THEN /\ credentials' = Append(credentials, [entered |-> FALSE])
            /\ _credential' = Len(credentials) + 1
       ELSE UNCHANGED <<credentials, _credential>>
    /\ clients' = Append(clients, [strategy |-> Strategy])
    /\ _client' = Len(clients) + 1
    /\ _client_initialized' = TRUE
    /\ session' = [session EXCEPT ![p] = Len(clients) + 1]
    /\ pc' = [pc EXCEPT ![p] = "fetch"]
    /\ UNCHANGED <<providers, _provider, _provider_initialized, stream_state>>

\* variant of GetClientNoCredentials: the flag is set before the raise
GetClientNoCredentials_flag_first(p) ==
    /\ ~(_client_initialized /\ _client # 0)
    /\ Strategy = 0
    /\ ConfigureTracing(configure_tracer(_TRACING_CONFIGURED, tracer_env))
    /\ resolutions' = resolutions + 1
    /\ _client_initialized' = TRUE
    /\ except_handler(p, "No credentials configured")
    /\ UNCHANGED <<heap, provider_globals, _client, session>>

\* no option is configured: raise ValueError, caught by run_todo_agent
GetClientNoCredentials(p) ==
    /\ ~(_client_initialized /\ _client # 0)
    /\ Strategy = 0
    /\ ConfigureTracing(configure_tracer(_TRACING_CONFIGURED, tracer_env))
    /\ resolutions' = resolutions + 1
    /\ except_handler(p, "No credentials configured")
    /\ UNCHANGED <<heap, provider_globals, _client, _client_initialized, session>>

get_openai_client(p) ==
    /\ pc[p] = "session"
    /\ variant = "openai"
    /\ \/ GetClientCached(p)
       \/ GetClientBuild(p)
       \/ GetClientNoCredentials(p)
    /\ UNCHANGED <<config, prompt_state, delivered, tool_log, conversation,
                   format_state,
                   consumer, user_id, awaited, todos, agent, reads,
                   fetch_state, calls>>

\* ---------------------------------------- session: project-provider variant
\* lines 126-136: the check, the credential, up to the first await
GetProviderCheck(p) ==
    /\ pc[p] = "session"
    /\ variant = "provider"
    /\ IF _provider_initialized /\ _provider # 0
       THEN /\ session' = [session EXCEPT ![p] = _provider]
            /\ pc' = [pc EXCEPT ![p] = "fetch"]
            /\ UNCHANGED <<heap, provider_globals, awaited, resolutions>>
       ELSE /\ credentials' = Append(credentials, [entered |-> FALSE])
            /\ _credential' = Len(credentials) + 1
            /\ awaited' = [awaited EXCEPT ![p] = Len(credentials) + 1]
            /\ resolutions' = resolutions + 1
            /\ pc' = [pc EXCEPT ![p] = "await_credential"]
            /\ UNCHANGED <<providers, clients, _provider, _provider_initialized,
                           session>>
    /\ UNCHANGED <<config, prompt_state, delivered, tool_log, conversation,
                   format_state,
                   client_globals, consumer, user_id, todos, agent,
                   reads, stream_state, fetch_state, calls>>

\* variant of GetProviderCredentialEntered: a provider that another
\* invocation has constructed is awaited instead of constructing one
GetProviderCredentialEntered_reuse(p) ==
    /\ pc[p] = "await_credential"
    /\ credentials' = [credentials EXCEPT ![awaited[p]].entered = TRUE]
    /\ IF _provider # 0
       THEN /\ awaited' = [awaited EXCEPT ![p] = _provider]
            /\ UNCHANGED <<providers, _provider>>
       ELSE /\ providers' = Append(providers,
                               [credential |-> _credential, entered |-> FALSE])
            /\ _provider' = Len(providers) + 1
            /\ awaited' = [awaited EXCEPT ![p] = Len(providers) + 1]
    /\ pc' = [pc EXCEPT ![p] = "await_provider"]
    /\ UNCHANGED <<config, prompt_state, delivered, tool_log, conversation,
                   format_state,
                   clients, _credential, _provider_initialized,
                   client_globals, consumer, user_id, session, todos, agent,
                   reads, stream_state, fetch_state, calls, resolutions>>

\* await _credential.__aenter__() returns; lines 138-143 up to the await
GetProviderCredentialEntered(p) ==
    /\ pc[p] = "await_credential"
    /\ credentials' = [credentials EXCEPT ![awaited[p]].entered = TRUE]
    /\ providers' = Append(providers, [credential |-> _credential, entered |-> FALSE])
    /\ _provider' = Len(providers) + 1
    /\ awaited' = [awaited EXCEPT ![p] = Len(providers) + 1]
    /\ pc' = [pc EXCEPT ![p] = "await_provider"]
    /\ UNCHANGED <<config, prompt_state, delivered, tool_log, conversation,
                   format_state,
                   clients, _credential, _provider_initialized,
                   client_globals, consumer, user_id, session, todos, agent,
                   reads, stream_state, fetch_state, calls, resolutions>>

\* variant of GetProviderEntered: the flag is not set
GetProviderEntered_no_flag(p) ==
    /\ pc[p] = "await_provider"
    /\ providers' = [providers EXCEPT ![awaited[p]].entered = TRUE]
    /\ session' = [session EXCEPT ![p] = _provider]
    /\ awaited' = [awaited EXCEPT ![p] = 0]
    /\ pc' = [pc EXCEPT ![p] = "fetch"]
    /\ UNCHANGED <<config, prompt_state, delivered, tool_log, conversation,
                   format_state,
                   credentials, clients, provider_globals,
                   client_globals, consumer, user_id, todos, agent, reads,
                   stream_state, fetch_state, calls, resolutions>>

\* await _provider.__aenter__() returns; lines 144-147
GetProviderEntered(p) ==
    /\ pc[p] = "await_provider"
    /\ providers' = [providers EXCEPT ![awaited[p]].entered = TRUE]
    /\ _provider_initialized' = TRUE
    /\ session' = [session EXCEPT ![p] = _provider]
    /\ awaited' = [awaited EXCEPT ![p] = 0]
    /\ pc' = [pc EXCEPT ![p] = "fetch"]
    /\ UNCHANGED <<config, prompt_state, delivered, tool_log, conversation,
                   format_state,
                   credentials, clients, _credential, _provider,
                   client_globals, consumer, user_id, todos, agent, reads,
                   stream_state, fetch_state, calls, resolutions>>

\* one of the two __aenter__ calls raises: caught by run_todo_agent
GetProviderRaises(p) ==
    /\ pc[p] \in {"await_credential", "await_provider"}
    /\ except_handler(p, "session error")
    /\ awaited' = [awaited EXCEPT ![p] = 0]
    /\ UNCHANGED <<config, prompt_state, delivered, tool_log, conversation,
                   format_state,
                   heap, provider_globals, client_globals, consumer,
                   user_id, session, todos, agent, reads, fetch_state, calls,
                   resolutions>>

\* ----------------------------------------------------------- fetch_todos
\* variant of CacheHit: a truthiness test, if _todos_cache:
CacheHit_truthy(cache) == cache.some /\ cache.val # <<>>

\* variant of FetchOutcome: a failed request clears the cache
FetchOutcome_clear_on_failure(r, cache) ==
    IF ~r.transport /\ r.status = 200 /\ r.body.json
    THEN [cache |-> Some(r.body.val), ret |-> r.body.val]
    ELSE [cache |-> None, ret |-> <<>>]

\* if _todos_cache is not None
CacheHit(cache) == cache.some

\* variant of FetchOutcome: the failure paths store the empty list
FetchOutcome_cache_failure(r, cache) ==
    IF ~r.transport /\ r.status = 200 /\ r.body.json
    THEN [cache |-> Some(r.body.val), ret |-> r.body.val]
    ELSE [cache |-> Some(<<>>), ret |-> <<>>]

\* lines 56-67 once client.get has ended with outcome r: the cache after
\* the call and the list returned
FetchOutcome(r, cache) ==
    IF ~r.transport /\ r.status = 200 /\ r.body.json
    THEN [cache |-> Some(r.body.val), ret |-> r.body.val]
    ELSE [cache |-> cache, ret |-> <<>>]

\* lines 53-58: return the cache, or issue the request and wait for it
FetchCheck(p) ==
    /\ pc[p] = "fetch"
    /\ IF CacheHit(_todos_cache)
       THEN /\ todos' = [todos EXCEPT ![p] = _todos_cache.val]
            /\ fetched' = [fetched EXCEPT ![p] = "cached"]
            /\ fetch_log' = Append(fetch_log,
                 [net |-> FALSE, transport |-> FALSE, status |-> 0,
                  parsed |-> FALSE, ret |-> _todos_cache.val,
                  before |-> _todos_cache, after |-> _todos_cache])
            /\ pc' = [pc EXCEPT ![p] = "create_agent"]
       ELSE /\ pc' = [pc EXCEPT ![p] = "await_get"]
            /\ UNCHANGED <<todos, fetched, fetch_log>>
    /\ UNCHANGED <<config, prompt_state, delivered, tool_log, conversation,
                   format_state,
                   heap, provider_globals, client_globals, consumer,
                   user_id, session, awaited, agent, reads, stream_state,
                   _todos_cache, calls, resolutions>>

\* lines 58-67: the request ends, with a response or a transport failure
FetchResponse(p) ==
    /\ pc[p] = "await_get"
    /\ \E r \in Responses :
         LET o == FetchOutcome(r, _todos_cache) IN
         /\ _todos_cache' = o.cache
         /\ todos' = [todos EXCEPT ![p] = o.ret]
         /\ fetched' = [fetched EXCEPT ![p] =
                          IF ~r.transport /\ r.status = 200 /\ r.body.json
                          THEN "ok" ELSE "failed"]
         /\ fetch_log' = Append(fetch_log,
              [net |-> TRUE, transport |-> r.transport, status |-> r.status,
               parsed |-> r.body.json, ret |-> o.ret,
               before |-> _todos_cache, after |-> o.cache])
    /\ pc' = [pc EXCEPT ![p] = "create_agent"]
    /\ UNCHANGED <<config, prompt_state, delivered, tool_log, conversation,
                   format_state,
                   heap, provider_globals, client_globals, consumer,
                   user_id, session, awaited, agent, reads, stream_state,
                   calls, resolutions>>

\* ---------------------------------------------------- get_todo_by_id_tool
\* str.rstrip(chars): trailing characters that are in the set chars go
RECURSIVE RStrip(_, _)
RStrip(s, chars) ==
    IF s # <<>> /\ s[Len(s)] \in chars
    THEN RStrip(SubSeq(s, 1, Len(s) - 1), chars)
    ELSE s

\* TODO_API_URL.rstrip('/todos').rstrip('/') followed by /todos/{todo_id}
ItemUrl(list_url, todo_id) ==
    RStrip(RStrip(list_url, {"/", "t", "o", "d", "s"}), {"/"})
    \o <<"/", "t", "o", "d", "o", "s", "/", ToString(todo_id)>>

\* str(e) of the exception the request or response.json() raises
ExceptionText(r) == IF r.transport THEN "ConnectError" ELSE "JSONDecodeError"

\* variant of ToolResult: there is no branch for status 404
ToolResult_no_404(todo_id, r) ==
    IF r.transport \/ (r.status = 200 /\ ~r.body.json)
    THEN <<"Error fetching todo ", ToString(todo_id), ": ", ExceptionText(r)>>
    ELSE IF r.status = 200
    THEN <<"Todo Details:", "\n",
           "  ID: ", ToString(r.body.val.id), "\n",
           "  User ID: ", ToString(r.body.val.userId), "\n",
           "  Title: ", r.body.val.title, "\n",
           "  Status: ", IF r.body.val.completed THEN "Completed (check)"
                                                ELSE "Not completed (circle)">>
    ELSE <<"Error: API returned status ", ToString(r.status)>>

\* the string the tool returns for the outcome r of its request
ToolResult(todo_id, r) ==
    IF r.transport \/ (r.status = 200 /\ ~r.body.json)
    THEN <<"Error fetching todo ", ToString(todo_id), ": ", ExceptionText(r)>>
    ELSE IF r.status = 200
    THEN <<"Todo Details:", "\n",
           "  ID: ", ToString(r.body.val.id), "\n",
           "  User ID: ", ToString(r.body.val.userId), "\n",
           "  Title: ", r.body.val.title, "\n",
           "  Status: ", IF r.body.val.completed THEN "Completed (check)"
                                                ELSE "Not completed (circle)">>
    ELSE IF r.status = 404
    THEN <<"Todo with ID ", ToString(todo_id), " not found. Valid IDs are 1-200.">>
    ELSE <<"Error: API returned status ", ToString(r.status)>>

\* variant of ToolRequests: a todo found in the cache is not requested
ToolRequests_cache_first(url, todo_id, cache) ==
    IF cache.some /\ \E i \in DOMAIN cache.val : cache.val[i].id = todo_id
    THEN <<>>
    ELSE <<url>>

\* the requests one call of the tool issues: client.get(url), once
ToolRequests(url, todo_id, cache) == <<url>>

\* the agent calls the tool while its run is in progress
get_todo_by_id_tool(p) ==
    /\ pc[p] = "stream"
    /\ Len(tool_log) < MaxToolCalls
    /\ \E todo_id \in TodoIds, r \in ToolResponses :
         tool_log' = Append(tool_log,
            [ todo_id |-> todo_id,
              requests |-> ToolRequests(ItemUrl(TODO_API_URL, todo_id), todo_id,
                                        _todos_cache),
              response |-> r,
              cache |-> _todos_cache,
              result |-> ToolResult(todo_id, r) ])
    /\ UNCHANGED <<config, heap, provider_globals, client_globals, pc, locals,
                   stream_state, fetch_state, calls, resolutions, prompt_state,
                   delivered, conversation, format_state>>

\* ------------------------------------------------- agent and its stream
\* the history flattened to one line per user or assistant turn
RECURSIVE conversation_context(_)
conversation_context(history) ==
    IF history = <<>> THEN <<>>
    ELSE LET msg == Head(history)
             line == IF msg.role = "user"
                     THEN <<"User: ", msg.content, "\n">>
                     ELSE IF msg.role = "assistant"
                     THEN <<"Assistant: ", msg.content, "\n">>
                     ELSE <<>>
         IN line \o conversation_context(Tail(history))

\* format_todos_for_context, the agent, and the flattened prompt
CreateAgent(p) ==
    /\ pc[p] = "create_agent"
    /\ agent' = [agent EXCEPT ![p] =
                   Instructions(format_todos_for_context(todos[p], DefaultLimit))]
    /\ full_prompt' = [full_prompt EXCEPT ![p] =
                         conversation_context(chat_history[p]) \o <<user_message[p]>>]
    /\ pc' = [pc EXCEPT ![p] = "stream"]
    /\ UNCHANGED <<config, chat_history, user_message, delivered, tool_log,
                   conversation, format_state,
                   heap, provider_globals, client_globals, consumer,
                   user_id, session, awaited, todos, reads, stream_state,
                   fetch_state, calls, resolutions>>

\* the construction of the agent raises
CreateAgentRaises(p) ==
    /\ pc[p] = "create_agent"
    /\ except_handler(p, "agent error")
    /\ UNCHANGED <<config, prompt_state, delivered, tool_log, conversation,
                   format_state,
                   heap, provider_globals, client_globals, locals,
                   fetch_state, calls, resolutions>>

\* variant of StreamDelta: every chunk is yielded, empty or not
StreamDelta_no_filter(p) ==
    /\ pc[p] = "stream"
    /\ reads[p] < MaxDeltas
    /\ reads' = [reads EXCEPT ![p] = @ + 1]
    /\ \E d \in Deltas :
         /\ delivered' = [delivered EXCEPT ![p] = Append(@, d)]
         /\ Yield(p, [kind |-> "text", text |-> d])
    /\ UNCHANGED <<config, prompt_state, tool_log, conversation, format_state, heap,
                   provider_globals, client_globals, pc, consumer,
                   user_id, session, awaited, todos, agent, raised,
                   fetch_state, calls, resolutions>>

\* async for chunk in agent.run(...): if chunk.text: yield chunk.text
StreamDelta(p) ==
    /\ pc[p] = "stream"
    /\ reads[p] < MaxDeltas
    /\ reads' = [reads EXCEPT ![p] = @ + 1]
    /\ \E d \in Deltas :
         /\ delivered' = [delivered EXCEPT ![p] = Append(@, d)]
         /\ IF d # <<>>
            THEN Yield(p, [kind |-> "text", text |-> d])
            ELSE UNCHANGED <<emitted, cstate>>
    /\ UNCHANGED <<config, prompt_state, tool_log, conversation, format_state,
                   heap, provider_globals, client_globals, pc, consumer,
                   user_id, session, awaited, todos, agent, raised,
                   fetch_state, calls, resolutions>>

\* the stream is exhausted: yield the metadata trailer
StreamEnd(p) ==
    /\ pc[p] = "stream"
    /\ YieldLast(p, [kind |-> "meta",
                     text |-> MetadataText(Len(todos[p]), user_id[p])])
    /\ UNCHANGED <<config, prompt_state, delivered, tool_log, conversation,
                   format_state,
                   heap, provider_globals, client_globals, locals,
                   raised, fetch_state, calls, resolutions>>

\* reading the stream raises
StreamRaises(p) ==
    /\ pc[p] = "stream"
    /\ except_handler(p, "stream error")
    /\ UNCHANGED <<config, prompt_state, delivered, tool_log, conversation,
                   format_state,
                   heap, provider_globals, client_globals, locals,
                   fetch_state, calls, resolutions>>

\* ------------------------------------------------------- specification
\* the steps of run_todo_agent after the session is there
PipelineStep(p) ==
    \/ FetchCheck(p)
    \/ FetchResponse(p)
    \/ CreateAgent(p)
    \/ CreateAgentRaises(p)
    \/ StreamDelta(p)
    \/ StreamEnd(p)
    \/ StreamRaises(p)

Step(p) ==
    \/ get_openai_client(p)
    \/ GetProviderCheck(p)
    \/ GetProviderCredentialEntered(p)
    \/ GetProviderEntered(p)
    \/ GetProviderRaises(p)
    \/ PipelineStep(p)

\* invocations one after the other (non-overlapping calls)
Next ==
    \/ Start(1)
    \/ \E p \in Procs : Step(p)

Spec == Init /\ [][Next]_vars

\* an invocation through run_todo_agent_sync without a user_id
StartSync(p) ==
    /\ Start(p)
    /\ consumer'[p] = "sync"
    /\ user_id'[p] = ""

\* non-overlapping invocations of the OpenAI-client variant
ConfigNext ==
    \/ StartSync(1)
    \/ \E p \in Procs : get_openai_client(p) \/ PipelineStep(p)

ConfigSpec == ConfigInit /\ [][ConfigNext]_vars

\* --------------------------------------------- overlapping invocations
\* the project-provider variant; invocations interleave at their awaits
\* and are followed up to the return of fetch_todos
ConcInit ==
    /\ ProviderConfig
    /\ InitState
    /\ format_input = NoFormatInput

ConcNext ==
    \E p \in Procs :
        \/ StartSync(p)
        \/ GetProviderCheck(p)
        \/ GetProviderCredentialEntered(p)
        \/ GetProviderEntered(p)
        \/ FetchCheck(p)
        \/ FetchResponse(p)

ConcSpec == ConcInit /\ [][ConcNext]_vars

\* the OpenAI-client variant: get_openai_client has no await, so it is one
\* step of the invocation; followed up to the return of fetch_todos
ConcClientInit ==
    /\ OpenAIConfig /\ MinimalConfig
    /\ InitState
    /\ format_input = NoFormatInput

ConcClientNext ==
    \E p \in Procs :
        \/ StartSync(p)
        \/ get_openai_client(p)
        \/ FetchCheck(p)
        \/ FetchResponse(p)

ConcClientSpec == ConcClientInit /\ [][ConcClientNext]_vars

\* ------------------------------ invocations whose agent calls the tool
\* the project-provider variant with any of the list endpoints
ToolInit ==
    /\ variant = "provider"
    /\ AZURE_OPENAI_ENDPOINT = FALSE /\ APIM_SUBSCRIPTION_KEY = FALSE
    /\ AZURE_OPENAI_API_KEY = FALSE /\ OPENAI_API_KEY = FALSE
    /\ TODO_API_URL \in Urls
    /\ tracer_env = NoTelemetry
    /\ InitState
    /\ format_input = NoFormatInput

ToolNext ==
    \/ StartSync(1)
    \/ \E p \in Procs :
          \/ GetProviderCheck(p)
          \/ GetProviderCredentialEntered(p)
          \/ GetProviderEntered(p)
          \/ FetchCheck(p)
          \/ FetchResponse(p)
          \/ CreateAgent(p)
          \/ get_todo_by_id_tool(p)
          \/ StreamEnd(p)

ToolSpec == ToolInit /\ [][ToolNext]_vars

\* --------------------------- the OpenAI-client variant under any telemetry
\* no credentials at all, or OPENAI_API_KEY only; any tracer environment
TracingInit ==
    /\ variant = "openai"
    /\ AZURE_OPENAI_ENDPOINT = FALSE /\ APIM_SUBSCRIPTION_KEY = FALSE
    /\ AZURE_OPENAI_API_KEY = FALSE /\ OPENAI_API_KEY \in BOOLEAN
    /\ TODO_API_URL = DefaultUrl
    /\ tracer_env \in TracerEnvs
    /\ InitState
    /\ format_input = NoFormatInput

\* non-overlapping invocations up to the end of the agent run
TracingNext ==
    \/ StartSync(1)
    \/ \E p \in Procs :
          \/ get_openai_client(p)
          \/ FetchCheck(p)
          \/ FetchResponse(p)
          \/ CreateAgent(p)
          \/ StreamEnd(p)

TracingSpec == TracingInit /\ [][TracingNext]_vars

\* ------------------------------- one invocation with any chat history
\* the OpenAI-client variant with OPENAI_API_KEY only
ChatInit ==
    /\ OpenAIConfig
    /\ OPENAI_API_KEY /\ ~AZURE_OPENAI_ENDPOINT
    /\ ~APIM_SUBSCRIPTION_KEY /\ ~AZURE_OPENAI_API_KEY
    /\ tracer_env = NoTelemetry
    /\ InitState
    /\ format_input = NoFormatInput

\* the first invocation of the process, with a history a caller passes on
StartChat(p) ==
    /\ calls = 0
    /\ \E h \in Histories, m \in Messages : Invoke(p, h, m)
    /\ UNCHANGED conversation
    /\ consumer'[p] = "sync"
    /\ user_id'[p] = ""

ChatNext ==
    \/ StartChat(1)
    \/ \E p \in Procs : get_openai_client(p) \/ PipelineStep(p)

ChatSpec == ChatInit /\ [][ChatNext]_vars

\* ------------------------------------------ front ends with a conversation
\* the CLI loop: the user turn is appended to chat_history and the same
\* list is passed to run_todo_agent(user_input, chat_history)
cli_turn(p) ==
    /\ pc[p] = "idle"
    /\ conversation[p] = <<>> \/ consumer[p] = "cli"
    /\ \E user_input \in Contents :
         LET chat_history_now ==
                 Append(conversation[p], [role |-> "user", content |-> user_input])
         IN  /\ conversation' = [conversation EXCEPT ![p] = chat_history_now]
             /\ Invoke(p, chat_history_now, user_input)
    /\ consumer'[p] = "cli"
    /\ user_id'[p] = ""

\* the Chainlit handler: the user turn is appended and chat_history[:-1]
\* is passed to run_todo_agent
chainlit_on_message(p) ==
    /\ pc[p] = "idle"
    /\ conversation[p] = <<>> \/ consumer[p] = "chainlit"
    /\ \E content \in Contents :
         LET chat_history_now ==
                 Append(conversation[p], [role |-> "user", content |-> content])
         IN  /\ conversation' = [conversation EXCEPT ![p] = chat_history_now]
             /\ Invoke(p, SubSeq(chat_history_now, 1, Len(chat_history_now) - 1),
                       content)
    /\ consumer'[p] = "chainlit"
    /\ user_id'[p] = "u1"

\* the generator is exhausted: the front end appends the assistant turn
\* with the response it has collected and waits for the next message
append_assistant(p) ==
    /\ pc[p] = "done"
    /\ consumer[p] \in {"cli", "chainlit"}
    /\ conversation' = [conversation EXCEPT ![p] =
            Append(@, [role |-> "assistant", content |-> cstate[p].response])]
    /\ pc' = [pc EXCEPT ![p] = "idle"]
    /\ UNCHANGED <<config, heap, provider_globals, client_globals, locals,
                   stream_state, fetch_state, calls, resolutions, prompt_state,
                   delivered, tool_log, format_state>>

\* one conversation of one front end of the OpenAI-client variant, with
\* an agent whose stream ends without a delta
TurnNext ==
    \/ cli_turn(1)
    \/ chainlit_on_message(1)
    \/ append_assistant(1)
    \/ \E p \in Procs :
          \/ get_openai_client(p)
          \/ FetchCheck(p)
          \/ FetchResponse(p)
          \/ CreateAgent(p)
          \/ StreamEnd(p)

TurnSpec == ChatInit /\ [][TurnNext]_vars

\* ------------------------------------ format_todos_for_context on its own
FormatInit ==
    /\ ProviderConfig
    /\ InitState
    /\ format_input \in FormatInputs

\* one call of format_todos_for_context(todos, limit)
ApplyFormat ==
    /\ ~format_output.some
    /\ format_output' =
         Some(format_todos_for_context(format_input.todos, format_input.limit))
    /\ UNCHANGED <<config, heap, provider_globals, client_globals, pc, locals,
                   stream_state, fetch_state, calls, resolutions, prompt_state,
                   delivered, tool_log, conversation, format_input>>

FormatNext == ApplyFormat

FormatSpec == FormatInit /\ [][FormatNext]_vars

\* ================================================================ claims
\* the fragments of a sequence with the metadata trailer left out, as texts
RECURSIVE TextsOf(_)
TextsOf(e) ==
    IF e = <<>> THEN <<>>
    ELSE IF Head(e).kind = "meta" THEN TextsOf(Tail(e))
    ELSE <<Head(e).text>> \o TextsOf(Tail(e))

KindCount(e, k) == Cardinality({i \in DOMAIN e : e[i].kind = k})

Finished(p) == pc[p] = "done"

\* C1: in every invocation the metadata trailer is emitted at most once and
\* nothing is emitted after it; an invocation that ends without an exception
\* has emitted the trailer exactly once, as its last fragment, after text
\* fragments only; an invocation in which an exception was raised has
\* emitted no trailer, so no sequence holds both an error fragment and a
\* trailer.
C1_TrailerOnceLastOnSuccessOnly ==
    \A p \in Procs :
        LET e == emitted[p] IN
        /\ KindCount(e, "meta") <= 1
        /\ \A i \in DOMAIN e : e[i].kind = "meta" => i = Len(e)
        /\ (Finished(p) /\ raised[p] = "") =>
              /\ KindCount(e, "meta") = 1
              /\ e[Len(e)].kind = "meta"
              /\ \A i \in 1..(Len(e) - 1) : e[i].kind = "text"
        /\ raised[p] # "" => KindCount(e, "meta") = 0
        /\ KindCount(e, "error") > 0 => KindCount(e, "meta") = 0

C1_Witness ==
    \E p \in Procs :
        /\ Finished(p) /\ raised[p] = ""
        /\ Len(emitted[p]) = 3
        /\ emitted[p][3].kind = "meta"

\* C2: run_todo_agent_sync returns the in-order concatenation of the text
\* fragments of the sequence, the metadata trailer excluded.
C2_SyncIsConcatenationWithoutTrailer ==
    \A p \in Procs :
        (Finished(p) /\ consumer[p] = "sync") =>
            cstate[p].response = Join(TextsOf(emitted[p]))

\* C3: in the CLI loop, the Chainlit handler and POST /chat with
\* stream=true, the chunks forwarded to the user are the text fragments in
\* arrival order, and the trailer is neither forwarded nor part of the
\* stored assistant reply.
C3_StreamingConsumersDropTrailer ==
    \A p \in Procs :
        consumer[p] \in {"cli", "chainlit", "chat_stream"} =>
            /\ cstate[p].out = TextsOf(emitted[p])
            /\ consumer[p] \in {"cli", "chainlit"} =>
                  cstate[p].response = Join(TextsOf(emitted[p]))

\* C4: POST /chat/stream emits one text event per text fragment, in order,
\* then one [DONE] event, and no other event.
C4_SseEventsAreTextsThenDone ==
    \A p \in Procs :
        (Finished(p) /\ consumer[p] = "sse") =>
            LET texts == TextsOf(emitted[p]) IN
            cstate[p].out = [i \in 1..Len(texts) |-> SseText(texts[i])] \o <<SseDone>>

\* C5: when an exception is raised anywhere in run_todo_agent, it does not
\* leave the generator: exactly one error fragment carrying its message is
\* emitted, as the last fragment, and the generator has terminated.
C5_ExceptionBecomesOneLastErrorFragment ==
    \A p \in Procs :
        /\ pc[p] # "crashed"
        /\ raised[p] # "" =>
              LET e == emitted[p] IN
              /\ Finished(p)
              /\ KindCount(e, "error") = 1
              /\ e[Len(e)] = [kind |-> "error", text |-> ErrorText(raised[p])]
        /\ raised[p] = "" => KindCount(emitted[p], "error") = 0

C5_Witness ==
    \E p \in Procs :
        /\ raised[p] = "stream error"
        /\ Len(emitted[p]) = 3
        /\ emitted[p][1].kind = "text"

\* a call that received HTTP 200; one that completed from it (the body
\* parsed and the list was returned); one that failed
Got200(entry) == entry.net /\ ~entry.transport /\ entry.status = 200
Filled(entry) == Got200(entry) /\ entry.parsed
FetchFailed(entry) == entry.net /\ (entry.transport \/ entry.status # 200)

\* C6: after a fetch_todos call that completed from an HTTP 200 response
\* (status 200, body parsed, the return of line 62), every later call
\* returns that list, issues no network request and leaves the cache as it
\* is; at most one network fetch ever succeeds.
C6_CacheServesCallsAfterSuccessfulFetch ==
    /\ \A i, j \in DOMAIN fetch_log :
          (i < j /\ Filled(fetch_log[i])) =>
              /\ ~fetch_log[j].net
              /\ fetch_log[j].ret = fetch_log[i].ret
              /\ fetch_log[j].before = Some(fetch_log[i].ret)
              /\ fetch_log[j].after = fetch_log[j].before
    /\ Cardinality({i \in DOMAIN fetch_log : Filled(fetch_log[i])}) <= 1
    /\ \A i \in DOMAIN fetch_log :
          Filled(fetch_log[i]) => _todos_cache = Some(fetch_log[i].ret)

C6_Witness ==
    /\ Len(fetch_log) = 2
    /\ Filled(fetch_log[1])
    /\ fetch_log[1].ret = <<>>
    /\ ~fetch_log[2].net

\* C7: a fetch_todos call that gets a non-200 status or a transport failure
\* returns the empty list and leaves the cache as it was, unset, so the
\* next call issues a new request; the cache is assigned only by a call
\* that received HTTP 200.
C7_FailedFetchLeavesCacheUnset ==
    /\ \A i \in DOMAIN fetch_log :
          FetchFailed(fetch_log[i]) =>
              /\ fetch_log[i].ret = <<>>
              /\ fetch_log[i].after = fetch_log[i].before
              /\ fetch_log[i].after = None
              /\ (i + 1) \in DOMAIN fetch_log => fetch_log[i + 1].net
    /\ \A i \in DOMAIN fetch_log :
          fetch_log[i].after # fetch_log[i].before => Got200(fetch_log[i])
    /\ (\A i \in DOMAIN fetch_log : ~Got200(fetch_log[i])) => _todos_cache = None

C7_Witness ==
    /\ Len(fetch_log) = 2
    /\ FetchFailed(fetch_log[1])
    /\ fetch_log[2].net

\* C8: when the todo fetch fails, run_todo_agent goes on: the agent is
\* built with the context 'No todos available.', the fetch itself raises
\* nothing, and when the agent and its stream raise nothing the sequence is
\* the text fragments followed by a trailer whose todos_loaded is 0.
C8_FetchFailureDegradesToNoTodos ==
    \A p \in Procs :
        fetched[p] = "failed" =>
            /\ pc[p] \in {"create_agent", "stream", "done"}
            /\ todos[p] = <<>>
            /\ raised[p] \in {"", "agent error", "stream error"}
            /\ pc[p] = "stream" =>
                  agent[p] = << <<"SYSTEM_PROMPT">>, <<"--- TODO DATA ---">>,
                                <<"No todos available.">> >>
            /\ (Finished(p) /\ raised[p] = "") =>
                  /\ agent[p] = << <<"SYSTEM_PROMPT">>, <<"--- TODO DATA ---">>,
                                   <<"No todos available.">> >>
                  /\ KindCount(emitted[p], "error") = 0
                  /\ emitted[p][Len(emitted[p])] =
                        [kind |-> "meta", text |-> MetadataText(0, user_id[p])]

C8_Witness ==
    \E p \in Procs :
        /\ fetched[p] = "failed"
        /\ Finished(p) /\ raised[p] = ""
        /\ Len(emitted[p]) = 2
        /\ emitted[p][1].kind = "text"

\* C9: for every combination of the four configuration values, the client
\* built by get_openai_client uses the first fully configured strategy in
\* the order gateway key, API key, workload identity, OpenAI key; one
\* client is built, and none when no strategy is configured.
C9_FirstConfiguredStrategyWins ==
    variant = "openai" =>
        /\ Len(clients) <= 1
        /\ \A i \in DOMAIN clients :
              LET s == clients[i].strategy IN
              /\ s \in 1..4
              /\ s = 1 <=> (AZURE_OPENAI_ENDPOINT /\ APIM_SUBSCRIPTION_KEY)
              /\ s = 2 <=> (AZURE_OPENAI_ENDPOINT /\ ~APIM_SUBSCRIPTION_KEY
                              /\ AZURE_OPENAI_API_KEY)
              /\ s = 3 <=> (AZURE_OPENAI_ENDPOINT /\ ~APIM_SUBSCRIPTION_KEY
                              /\ ~AZURE_OPENAI_API_KEY)
              /\ s = 4 <=> (~AZURE_OPENAI_ENDPOINT /\ OPENAI_API_KEY)
        /\ (resolutions > 0 /\ (AZURE_OPENAI_ENDPOINT \/ OPENAI_API_KEY)) =>
              /\ Len(clients) = 1
              /\ resolutions = 1
              /\ _client = 1 /\ _client_initialized
        /\ (~AZURE_OPENAI_ENDPOINT /\ ~OPENAI_API_KEY) => clients = <<>>

C9_Witness ==
    /\ variant = "openai"
    /\ AZURE_OPENAI_ENDPOINT /\ ~APIM_SUBSCRIPTION_KEY
    /\ AZURE_OPENAI_API_KEY /\ OPENAI_API_KEY
    /\ Len(clients) = 1 /\ clients[1].strategy = 2
    /\ calls = 2 /\ \E p \in Procs : session[p] = 1 /\ fetched[p] # "none"

\* C10: with no credential strategy configured, every invocation emits one
\* error fragment and nothing else, _client stays None and
\* _client_initialized stays False, and every invocation runs the
\* credential resolution again.
C10_NoCredentialsFailsEveryCall ==
    (variant = "openai" /\ ~AZURE_OPENAI_ENDPOINT /\ ~OPENAI_API_KEY) =>
        /\ _client = 0 /\ ~_client_initialized
        /\ \A p \in Procs :
              /\ pc[p] \in {"idle", "session", "done"}
              /\ Finished(p) =>
                    emitted[p] = << [kind |-> "error",
                                     text |-> ErrorText("No credentials configured")] >>
        /\ resolutions = calls - Cardinality({p \in Procs : pc[p] = "session"})

C10_Witness ==
    /\ variant = "openai" /\ ~AZURE_OPENAI_ENDPOINT /\ ~OPENAI_API_KEY
    /\ calls = 2 /\ resolutions = 2
    /\ \E p \in Procs : Finished(p) /\ Len(emitted[p]) = 1
\* the shared session object of the variant, and whether it is published
Singleton == IF variant = "provider" THEN _provider ELSE _client

Ready ==
    \/ variant = "provider" /\ _provider_initialized /\ _provider # 0
    \/ variant = "openai" /\ _client_initialized /\ _client # 0

\* C15: over non-overlapping invocations, an invocation holds a session
\* object only when the session is Ready, and once it is Ready every step
\* leaves it Ready, constructs no credential, client or provider, leaves
\* the singleton globals as they are, and a call that obtains a session
\* obtains the singleton.
C15_SessionReadyOnceAndReused ==
    [][ /\ (\E p \in Procs : session[p] # 0) => Ready
        /\ Ready =>
             /\ Ready'
             /\ UNCHANGED <<heap, provider_globals, _client, _client_initialized>>
             /\ \A p \in Procs :
                   session'[p] # session[p] => session'[p] \in {0, Singleton} ]_vars

\* a second invocation has obtained the session built by the first
C15_Witness ==
    /\ calls = 2
    /\ Ready
    /\ pc[1] = "fetch"
    /\ session[1] = Singleton
    /\ Len(credentials) + Len(clients) + Len(providers) <= 2
    /\ resolutions = 1

\* C13: for a list of n todos and a limit L >= 0 the result is the single
\* line 'No todos available.' when n = 0; otherwise it is a header that
\* reports min(L, n) of n, the separator line, and exactly min(L, n) lines,
\* the i-th describing the i-th todo of the list by glyph, id, userId and
\* title in that order.
C13_FormatShowsFirstMinLN ==
    format_output.some =>
        LET t == format_input.todos
            n == Len(t)
            k == Min(format_input.limit, n)
            out == format_output.val
        IN  IF n = 0
            THEN out = << <<"No todos available.">> >>
            ELSE /\ Len(out) = k + 2
                 /\ out[1] = <<"Available Todos (", ToString(k), " of ",
                               ToString(n), " shown):">>
                 /\ out[2] = <<"--------------------------------------------------">>
                 /\ \A i \in 1..k :
                       out[i + 2] =
                         << IF t[i].completed THEN "(check)" ELSE "(circle)",
                            " [ID:", ToString(t[i].id), "] (User ",
                            ToString(t[i].userId), ") ", t[i].title >>

\* a list of three todos formatted with limit 2
C13_Witness ==
    /\ format_output.some
    /\ format_input.todos = <<Todo2, Todo3, Todo1>>
    /\ format_input.limit = 2
    /\ Len(format_output.val) = 4

\* C14: the prompt handed to the agent holds exactly one line per turn of
\* the history, in history order, each line being the turn's prefix
\* ('User: ' for a user turn, 'Assistant: ' for an assistant turn), its
\* content and a newline, followed by the new user message.
C14_PromptHasOneLinePerTurn ==
    \A p \in Procs :
        full_prompt[p] # <<>> =>
            LET pr == full_prompt[p]
                h == chat_history[p]
            IN  /\ Len(pr) = 3 * Len(h) + 1
                /\ pr[Len(pr)] = user_message[p]
                /\ \A i \in DOMAIN h :
                      /\ h[i].role = "user" => pr[3 * i - 2] = "User: "
                      /\ h[i].role = "assistant" => pr[3 * i - 2] = "Assistant: "
                      /\ pr[3 * i - 1] = h[i].content
                      /\ pr[3 * i] = "\n"

IsTextFragment(f) == f.kind = "text"

NonEmptyDelta(d) == d # <<>>

\* the texts of the text fragments of a sequence of fragments
TextFragments(e) ==
    LET t == SelectSeq(e, IsTextFragment) IN [i \in DOMAIN t |-> t[i].text]

\* C20: at every point of every invocation the text fragments emitted so
\* far are exactly the non-empty deltas read from the provider stream so
\* far, in arrival order: a non-empty delta is emitted in the step that
\* reads it, an empty delta produces no fragment, and nothing is merged,
\* duplicated, dropped or reordered.
C20_TextFragmentsAreNonEmptyDeltas ==
    \A p \in Procs :
        TextFragments(emitted[p]) = SelectSeq(delivered[p], NonEmptyDelta)

\* a stream that delivered an empty delta and then a non-empty one
C20_Witness ==
    /\ delivered[1] = << <<>>, <<" there">> >>
    /\ TextFragments(emitted[1]) = << <<" there">> >>
    /\ pc[1] = "done"

\* telemetry cannot be configured: the connection string is missing, or
\* each of the two options is unavailable (its modules did not load) or
\* raises while it configures the exporters
TelemetryFails(env) ==
    \/ ~env.connection_string
    \/ /\ \/ ~env.AGENT_FRAMEWORK_AVAILABLE
           \/ ~env.AZURE_MONITOR_EXPORTERS_AVAILABLE
           \/ env.option1_raises
       /\ ~env.AZURE_MONITOR_AVAILABLE \/ env.option2_raises

\* C16: when telemetry cannot be configured, every call of configure_tracer
\* returns False and tracing stays disabled; each run of get_openai_client
\* that configures tracing goes on to the credential resolution; and no
\* invocation ends in an error because of it: with a credential configured
\* no exception is raised and the invocation holds a client from the fetch
\* on, without one the only exception is the missing-credentials error.
C16_TelemetryFailureOnlyDisablesTracing ==
    TelemetryFails(tracer_env) =>
        /\ \A i \in DOMAIN tracer_returned : tracer_returned[i] = FALSE
        /\ ~_tracing_configured /\ ~_TRACING_CONFIGURED
        /\ Len(tracer_returned) = resolutions
        /\ \A p \in Procs :
              IF Strategy # 0
              THEN /\ raised[p] = ""
                   /\ pc[p] \in {"fetch", "await_get", "create_agent", "stream", "done"}
                        => session[p] = _client /\ _client # 0
              ELSE raised[p] \in {"", "No credentials configured"}

\* both options are available and both raise; the invocation has run its
\* agent to the end
C16_Witness ==
    /\ tracer_env.connection_string
    /\ tracer_env.AGENT_FRAMEWORK_AVAILABLE
    /\ tracer_env.AZURE_MONITOR_EXPORTERS_AVAILABLE
    /\ tracer_env.AZURE_MONITOR_AVAILABLE
    /\ tracer_env.option1_raises /\ tracer_env.option2_raises
    /\ tracer_returned = <<FALSE>>
    /\ pc[1] = "done" /\ raised[1] = ""
    /\ KindCount(emitted[1], "meta") = 1

Contains(text, token) == \E i \in DOMAIN text : text[i] = token

EndsWith(s, suffix) ==
    /\ Len(s) >= Len(suffix)
    /\ SubSeq(s, Len(s) - Len(suffix) + 1, Len(s)) = suffix

\* C11: every call of the tool returns a string, whatever the todo_id and
\* the outcome of its request: on HTTP 200 with a todo the four-line block
\* made of the returned todo's id, userId, title and status; on HTTP 404 a
\* not-found message with the requested id and the range 1-200; on any
\* other status an error string with that status; on a transport failure
\* or a body that does not parse an error string with the requested id
\* and the exception text.
C11_ToolMapsEveryOutcomeToAString ==
    \A i \in DOMAIN tool_log :
        LET e == tool_log[i]
            r == e.response
            id == ToString(e.todo_id)
        IN  /\ e.result # <<>>
            /\ (~r.transport /\ r.status = 200 /\ r.body.json) =>
                  e.result =
                    <<"Todo Details:", "\n",
                      "  ID: ", ToString(r.body.val.id), "\n",
                      "  User ID: ", ToString(r.body.val.userId), "\n",
                      "  Title: ", r.body.val.title, "\n",
                      "  Status: ", IF r.body.val.completed
                                    THEN "Completed (check)"
                                    ELSE "Not completed (circle)">>
            /\ (~r.transport /\ r.status = 404) =>
                  /\ Contains(e.result, id)
                  /\ Contains(e.result, " not found. Valid IDs are 1-200.")
            /\ (~r.transport /\ r.status \notin {200, 404}) =>
                  /\ e.result[1] = "Error: API returned status "
                  /\ Contains(e.result, ToString(r.status))
            /\ (r.transport \/ (r.status = 200 /\ ~r.body.json)) =>
                  /\ e.result[1] = "Error fetching todo "
                  /\ Contains(e.result, id)
                  /\ Contains(e.result, ExceptionText(r))

\* a call for todo 1 answered 200 with a todo whose id is 2: the block
\* shows the returned id
C11_Witness ==
    /\ Len(tool_log) = 1
    /\ tool_log[1].todo_id = 1
    /\ tool_log[1].response.status = 200
    /\ tool_log[1].response.body.json /\ tool_log[1].response.body.val = Todo2
    /\ tool_log[1].result[4] = "2"

\* C12: for a list endpoint B + '/todos' the tool requests
\* B + '/todos/' + todo_id, for every B and every todo_id.
C12_ItemUrlKeepsTheBase ==
    \A i \in DOMAIN tool_log :
        EndsWith(TODO_API_URL, TodosSuffix) =>
            tool_log[i].requests =
                << TODO_API_URL \o <<"/", ToString(tool_log[i].todo_id)>> >>

\* C19: every step in which the tool is called issues exactly one request
\* and leaves the todo cache, the session globals and the constructed
\* session objects as they were, whatever the cache holds and whatever the
\* outcome.
C19_ToolIssuesOneRequestAndKeepsState ==
    [][ Len(tool_log') > Len(tool_log) =>
          /\ Len(tool_log'[Len(tool_log')].requests) = 1
          /\ UNCHANGED <<_todos_cache, heap, provider_globals, client_globals,
                         session>> ]_vars

\* the tool was called for an id that the populated cache holds
C19_Witness ==
    /\ Len(tool_log) = 1
    /\ tool_log[1].cache = Some(<<Todo1, Todo2>>) /\ tool_log[1].todo_id = 1
    /\ Len(tool_log[1].requests) = 1
    /\ _todos_cache = Some(<<Todo1, Todo2>>)

\* C17 as stated: once the cache holds a list no step changes it.
C17_FilledCacheNeverChanges ==
    [][ _todos_cache.some => _todos_cache' = _todos_cache ]_vars

\* C17: once the cache holds a list it is never cleared, and the only step
\* that changes it is the end of the request of a call that was already
\* waiting, with HTTP 200 and a body that parses, which stores that body;
\* a call that starts after the fill and a call whose request fails leave
\* it as it is.
C17_FilledCacheChangesOnlyByWaiting200 ==
    [][ (_todos_cache.some /\ _todos_cache' # _todos_cache) =>
          /\ _todos_cache'.some
          /\ \E p \in Procs :
                /\ pc[p] = "await_get" /\ pc'[p] = "create_agent"
                /\ fetched'[p] = "ok"
                /\ _todos_cache' = Some(todos'[p])
          /\ LET e == fetch_log'[Len(fetch_log')]
             IN  e.net /\ ~e.transport /\ e.status = 200 /\ e.parsed ]_vars

\* two calls both requested the list; the second response replaced the
\* list that the first had stored
C17_Witness ==
    /\ Len(fetch_log) = 2
    /\ fetch_log[1].net /\ fetch_log[1].after = Some(<<Todo1, Todo2>>)
    /\ fetch_log[2].net /\ fetch_log[2].before = Some(<<Todo1, Todo2>>)
    /\ fetch_log[2].after = Some(<<>>)
    /\ _todos_cache = Some(<<>>)

\* every invocation is past get_agent_provider
InitDone ==
    \A p \in Procs : pc[p] \notin {"session", "await_credential", "await_provider"}

\* the invocations between their start and their end
Live(p) == pc[p] \notin {"idle", "done"}

HttpConsumers == { "sync", "chat_stream", "sse" }

\* C24: no exception leaves run_todo_agent, so no HTTP front end answers
\* 500 because of a failure in the pipeline; a finished invocation of the
\* non-streaming /chat in which an exception was raised answers 200 with a
\* response that ends with the text 'Error: {message}'.
C24_AgentFailureNeverAnswers500 ==
    \A p \in Procs :
        /\ pc[p] # "crashed"
        /\ consumer[p] \in HttpConsumers => HttpStatus(consumer[p], pc[p]) = 200
        /\ (consumer[p] = "sync" /\ Finished(p) /\ raised[p] # "") =>
              EndsWith(cstate[p].response, ErrorText(raised[p]))

\* the non-streaming /chat after a provider error in the middle of the
\* stream: 200, the text delivered so far, then the error text
C24_Witness ==
    /\ consumer[1] = "sync"
    /\ Finished(1)
    /\ raised[1] = "stream error"
    /\ HttpStatus(consumer[1], pc[1]) = 200
    /\ cstate[1].response = <<"Hi", "Error: ", "stream error">>

\* the invocations that get_agent_provider has returned a provider to
HoldsProvider(p) ==
    /\ variant = "provider"
    /\ pc[p] \in {"fetch", "await_get", "create_agent", "stream", "done"}
    /\ session[p] # 0

\* C22: in every interleaving, the provider an invocation holds after
\* get_agent_provider returned has completed its __aenter__, and the
\* credential it was constructed with has completed its __aenter__.
C22_ReturnedProviderIsEntered ==
    \A p \in Procs :
        HoldsProvider(p) =>
            /\ providers[session[p]].entered
            /\ credentials[providers[session[p]].credential].entered

\* the invocations that get_openai_client has returned a client to
HoldsClient(p) ==
    /\ variant = "openai"
    /\ pc[p] \in {"fetch", "await_get", "create_agent", "stream", "done"}
    /\ session[p] # 0

\* C21: in the OpenAI-client variant, for every interleaving of concurrent
\* invocations, at most one client object is ever constructed, at most
\* one resolution succeeds, and every invocation that holds a client holds
\* that one, the published _client.
C21_OneClientForAllCallers ==
    variant = "openai" =>
        /\ Len(clients) <= 1
        /\ Strategy # 0 => resolutions <= 1
        /\ \A p \in Procs :
              /\ HoldsClient(p) => session[p] = _client /\ _client_initialized
              /\ (Strategy # 0 /\ pc[p] \in {"fetch", "await_get", "create_agent"})
                    => HoldsClient(p)

\* two invocations overlap (both wait for their todo request) and hold
\* the one client that the first of them built
C21_Witness ==
    /\ pc[1] = "await_get" /\ pc[2] = "await_get"
    /\ HoldsClient(1) /\ HoldsClient(2)
    /\ session[1] = session[2]
    /\ Len(clients) = 1
    /\ resolutions = 1

\* C23: in the front ends that keep a conversation, the history an
\* invocation receives holds the earlier turns only, that is the stored
\* history without the user turn just appended, so the prompt has one
\* line per earlier turn followed by the new message; and between turns
\* the stored history holds an even number of turns, alternating user,
\* assistant.
C23_HistoryHoldsEarlierTurnsOnly ==
    \A p \in Procs :
        consumer[p] \in {"cli", "chainlit"} =>
            /\ Live(p) =>
                  /\ Len(chat_history[p]) = Len(conversation[p]) - 1
                  /\ full_prompt[p] # <<>> =>
                        Len(full_prompt[p]) = 3 * (Len(conversation[p]) - 1) + 1
            /\ pc[p] = "idle" => Len(conversation[p]) % 2 = 0
            /\ \A i \in DOMAIN conversation[p] :
                  conversation[p][i].role = IF i % 2 = 1 THEN "user" ELSE "assistant"

====
